---- MODULE Spec2Model ----
(***************************************************************************)
(* Model of genkan's site generator (src/src/generator.rs) and of the      *)
(* configuration it consumes (src/src/config.rs).                          *)
(*                                                                         *)
(* Rust Strings are TLA+ strings.  A byte buffer (Vec<u8>) is a record     *)
(* (see the section "Byte buffers").  Result<T> is a record with field ok. *)
(***************************************************************************)
EXTENDS Integers, Sequences, FiniteSets, TLC

VARIABLES
    pc,        \* position inside Generator::generate
    cfg,       \* self.config (read-only after construction)
    profile,   \* processed_profile: the avatars and the social icons
    links,     \* processed_links: the icon of every link
    idx,       \* loop index of the social-link / link loops
    qr,        \* qr_code_data: Option<String>
    favicon,   \* processed_favicon: Option<String>
    typo,      \* the resolved typography of the four roles
    ctx,       \* html_context: the values inserted, by key
    result,    \* return value of generate(): "running", "Ok" or "Err"
    written,   \* whether fs::write of the output file happened
    events,    \* the effects of the run, in order
    call,      \* arguments of a direct call of one function
    ret        \* what that call returned

vars == <<pc, cfg, profile, links, idx, qr, favicon, typo, ctx, result,
          written, events, call, ret>>

genVars == <<pc, cfg, profile, links, idx, qr, favicon, typo, ctx, result,
             written, events>>

-----------------------------------------------------------------------------
(* Strings                                                                 *)

CharAt(s, i) == SubSeq(s, i, i)

\* str::starts_with
StartsWith(s, p) == Len(s) >= Len(p) /\ SubSeq(s, 1, Len(p)) = p

\* str::ends_with
EndsWith(s, p) ==
    Len(s) >= Len(p) /\ SubSeq(s, Len(s) - Len(p) + 1, Len(s)) = p

\* the pattern p occurs in s at index i
MatchAt(s, i, p) ==
    i + Len(p) - 1 <= Len(s) /\ SubSeq(s, i, i + Len(p) - 1) = p

\* str::contains
Contains(s, p) == \E i \in 1..(Len(s) + 1) : MatchAt(s, i, p)

\* number of occurrences of p in s
CountOf(s, p) == Cardinality({i \in 1..Len(s) : MatchAt(s, i, p)})

\* the characters the regex class \s matches in the inputs used here
IsSpace(c) == c \in {" ", "\n", "\t"}

\* least element of a non-empty set of integers
Min(S) == CHOOSE x \in S : \A y \in S : x <= y

\* first index >= i of s that is not whitespace (Len(s)+1 if none)
SkipSpace(s, i) ==
    Min({j \in i..Len(s) : ~IsSpace(CharAt(s, j))} \cup {Len(s) + 1})

\* first index >= i of s holding the character c (Len(s)+1 if none)
FindChar(s, i, c) ==
    Min({j \in i..Len(s) : CharAt(s, j) = c} \cup {Len(s) + 1})

\* str::trim_start
TrimStart(s) == SubSeq(s, SkipSpace(s, 1), Len(s))

\* str::trim_end
TrimEnd(s) ==
    LET keep == {j \in 1..Len(s) : ~IsSpace(CharAt(s, j))}
    IN IF keep = {} THEN "" ELSE SubSeq(s, 1, CHOOSE x \in keep : \A y \in keep : y <= x)

\* str::trim
Trim(s) == TrimEnd(TrimStart(s))

-----------------------------------------------------------------------------
(* Vector recolorer: Generator::process_svg_for_inline                     *)
(*                                                                         *)
(* Every XxxLen(s, i) is the length of the match of one regex of the       *)
(* source at index i of s, 0 when the regex does not match there.          *)
(* Regex::replace_all is the left-to-right scan ReplaceAll below.          *)

\* <\?xml[^?]*\?>
XmlDeclLen(s, i) ==
    IF ~MatchAt(s, i, "<?xml") THEN 0
    ELSE LET q == FindChar(s, i + 5, "?")
         IN IF MatchAt(s, q, "?>") THEN q + 2 - i ELSE 0

\* <!--[^>]*-->
CommentLen(s, i) ==
    IF ~MatchAt(s, i, "<!--") THEN 0
    ELSE LET g == FindChar(s, i + 4, ">")
         IN IF g <= Len(s) /\ g - 2 >= i + 4 /\ MatchAt(s, g - 2, "-->")
            THEN g + 1 - i ELSE 0

\* \s+name="[^"]*"   (name is width or height)
SpacedAttrLen(s, i, name) ==
    IF ~(i <= Len(s) /\ IsSpace(CharAt(s, i))) THEN 0
    ELSE LET a == SkipSpace(s, i)
             open == name \o "=\""
         IN IF ~MatchAt(s, a, open) THEN 0
            ELSE LET c == FindChar(s, a + Len(open), "\"")
                 IN IF c <= Len(s) THEN c + 1 - i ELSE 0

\* name="[^"]*"   (name is fill or stroke)
AttrLen(s, i, name) ==
    LET open == name \o "=\""
    IN IF ~MatchAt(s, i, open) THEN 0
       ELSE LET c == FindChar(s, i + Len(open), "\"")
            IN IF c <= Len(s) THEN c + 1 - i ELSE 0

\* the closure of the fill / stroke attribute replacement
AttrRepl(m, name) ==
    IF m = name \o "=\"none\"" THEN m ELSE name \o "=\"currentColor\""

\* name:\s*([^;]+)   (name is fill or stroke): the match as a record of
\* its length and of capture group 1.  \s* is greedy, and gives one
\* whitespace character back when nothing else is left for [^;]+.
StyleMatch(s, i, name) ==
    IF ~MatchAt(s, i, name \o ":") THEN [len |-> 0, color |-> ""]
    ELSE LET a == i + Len(name) + 1
             b == SkipSpace(s, a)
             e == FindChar(s, b, ";")
         IN IF e > b THEN [len |-> e - i, color |-> SubSeq(s, b, e - 1)]
            ELSE IF b > a
                 THEN [len |-> b - i, color |-> SubSeq(s, b - 1, b - 1)]
                 ELSE [len |-> 0, color |-> ""]

\* the closure of the style fill / stroke replacement
StyleRepl(color, name) ==
    IF Trim(color) = "none" THEN name \o ":" \o color
    ELSE name \o ":currentColor"

\* the match of step `step` at index i: its length and its replacement
StepMatch(s, i, step) ==
    CASE step = "xml" -> [len |-> XmlDeclLen(s, i), repl |-> ""]
      [] step = "comment" -> [len |-> CommentLen(s, i), repl |-> ""]
      [] step = "width" -> [len |-> SpacedAttrLen(s, i, "width"), repl |-> ""]
      [] step = "height" ->
            [len |-> SpacedAttrLen(s, i, "height"), repl |-> ""]
      [] step = "fill" ->
            LET n == AttrLen(s, i, "fill")
            IN [len |-> n, repl |-> AttrRepl(SubSeq(s, i, i + n - 1), "fill")]
      [] step = "stroke" ->
            LET n == AttrLen(s, i, "stroke")
            IN [len |-> n,
                repl |-> AttrRepl(SubSeq(s, i, i + n - 1), "stroke")]
      [] step = "style_fill" ->
            LET m == StyleMatch(s, i, "fill")
            IN [len |-> m.len, repl |-> StyleRepl(m.color, "fill")]
      [] step = "style_stroke" ->
            LET m == StyleMatch(s, i, "stroke")
            IN [len |-> m.len, repl |-> StyleRepl(m.color, "stroke")]

\* the index of the leftmost match of step `step` at or after i, 0 if none
NextMatch(s, i, step) ==
    LET M == {j \in i..Len(s) : StepMatch(s, j, step).len > 0}
    IN IF M = {} THEN 0 ELSE Min(M)

RECURSIVE ReplaceAll(_, _, _, _)
\* Regex::replace_all: leftmost non-overlapping matches, left to right;
\* the text between two matches is copied
ReplaceAll(s, i, acc, step) ==
    LET j == NextMatch(s, i, step)
    IN IF j = 0 THEN acc \o SubSeq(s, i, Len(s))
       ELSE LET m == StepMatch(s, j, step)
            IN ReplaceAll(s, j + m.len, acc \o SubSeq(s, i, j - 1) \o m.repl,
                          step)

SvgSteps ==
    <<"xml", "comment", "width", "height", "fill", "stroke", "style_fill",
      "style_stroke">>

RECURSIVE ApplySteps(_, _)
\* the text after the first n rewriting steps
ApplySteps(s, n) ==
    IF n = 0 THEN s ELSE ReplaceAll(ApplySteps(s, n - 1), 1, "", SvgSteps[n])

\* a recolorer that puts no sentinel before the text
NoSvgMarker == ""

InlineSvgMarker == "__INLINE_SVG__"

\* the rewriting of a UTF-8 text by process_svg_for_inline
RewriteSvg(text) == ApplySteps(text, Len(SvgSteps))

-----------------------------------------------------------------------------
(* Option<T> and Result<T>                                                 *)

None == [some |-> FALSE]
Some(v) == [some |-> TRUE, v |-> v]

Ok(v, ops) == [ok |-> TRUE, val |-> v, ops |-> ops]
Err(msg, ops) == [ok |-> FALSE, val |-> msg, ops |-> ops]

-----------------------------------------------------------------------------
(* Byte buffers                                                            *)
(*                                                                         *)
(* A buffer is the record of what the code can observe of it: text is its  *)
(* leading ASCII text and bin the number of bytes after that text that are *)
(* not valid UTF-8; img says whether image::load_from_memory decodes it,   *)
(* and then fmt, w, h are the format and the dimensions of the image and   *)
(* enc says whether the decoded image can be written as PNG.               *)

Raster(fmt, w, h, enc) ==
    [img |-> TRUE, fmt |-> fmt, w |-> w, h |-> h, enc |-> enc, text |-> "",
     bin |-> 8]

\* a text buffer: an SVG document, or anything else that is valid UTF-8
Text(t) ==
    [img |-> FALSE, fmt |-> "", w |-> 0, h |-> 0, enc |-> FALSE, text |-> t,
     bin |-> 0]

\* the text t followed by one byte that is not valid UTF-8
BadText(t) ==
    [img |-> FALSE, fmt |-> "", w |-> 0, h |-> 0, enc |-> FALSE, text |-> t,
     bin |-> 1]

\* Vec::len
BytesLen(b) == Len(b.text) + b.bin

\* &image_data[0..n] == p, for an ASCII pattern p of n bytes
BytesStartWith(b, p) == StartsWith(b.text, p)

\* String::from_utf8 succeeds
IsUtf8(b) == b.bin = 0

\* base64 STANDARD encode: an injective encoding of the buffer, written here
\* as the printed buffer
Base64(b) == ToString(b)

DataUri(mime, b) == "data:" \o mime \o ";base64," \o Base64(b)

-----------------------------------------------------------------------------
(* f32 arithmetic of resize_image                                          *)
(*                                                                         *)
(* A positive f32 is [m, e] of value m * 2^e with 2^23 <= m < 2^24.  A u32 *)
(* below 2^24 converts to f32 exactly.  Division and multiplication round  *)
(* to nearest, ties to even; `as u32` truncates.                           *)

RECURSIVE Pow2(_)
Pow2(k) == IF k = 0 THEN 1 ELSE 2 * Pow2(k - 1)

RECURSIVE BitLen(_)
\* number of binary digits of n
BitLen(n) == IF n = 0 THEN 0 ELSE 1 + BitLen(n \div 2)

\* m, which may have reached 2^24 by rounding up, renormalised
Normal(m, e) ==
    IF m = Pow2(24) THEN [m |-> Pow2(23), e |-> e + 1] ELSE [m |-> m, e |-> e]

RECURSIVE LongDiv(_, _, _, _, _)
\* k more quotient digits of n / d (d <= n < 2d at the first digit), then
\* the rounding of the 24-digit quotient q by the remainder
LongDiv(n, d, q, k, e) ==
    IF k = 0
    THEN Normal(IF n > d \/ (n = d /\ q % 2 = 1) THEN q + 1 ELSE q, e - 23)
    ELSE IF n >= d THEN LongDiv(2 * (n - d), d, 2 * q + 1, k - 1, e)
         ELSE LongDiv(2 * n, d, 2 * q, k - 1, e)

RECURSIVE DivScaled(_, _, _)
\* n / d after scaling n or d by powers of two so that d <= n < 2d
DivScaled(n, d, e) ==
    IF n < d THEN DivScaled(2 * n, d, e - 1)
    ELSE IF n >= 2 * d THEN DivScaled(n, 2 * d, e + 1)
    ELSE LongDiv(n, d, 0, 24, e)

\* n as f32 / d as f32, for integers 0 < n, d < 2^24
DivF32(n, d) == DivScaled(n, d, 0)

\* h as f32 * r, for an integer 0 < h < 2^11: the exact product is
\* hi * 2^12 + lo (times 2^r.e), rounded to 24 binary digits
MulF32(h, r) ==
    LET B == h * (r.m % 4096)
        hi == h * (r.m \div 4096) + B \div 4096
        lo == B % 4096
        d == BitLen(hi) - 12
    IN IF d <= 0 THEN [m |-> hi * 4096 + lo, e |-> r.e]
       ELSE LET kept == hi * Pow2(12 - d) + lo \div Pow2(d)
                rem == lo % Pow2(d)
                half == Pow2(d - 1)
            IN Normal(IF rem > half \/ (rem = half /\ kept % 2 = 1)
                      THEN kept + 1 ELSE kept, r.e + d)

\* x as u32, for a positive f32 x
TruncU32(x) ==
    IF x.e >= 0 THEN x.m * Pow2(x.e)
    ELSE IF -x.e > 30 THEN 0 ELSE x.m \div Pow2(-x.e)

-----------------------------------------------------------------------------
(* Raster resizer: Generator::resize_image                                 *)

\* (new_width, new_height) of an image of width x height that exceeds
\* target_size in some dimension
ResizeDims(width, height, target_size) ==
    IF width > height
    THEN LET ratio == DivF32(target_size, width)
         IN <<target_size, TruncU32(MulF32(height, ratio))>>
    ELSE LET ratio == DivF32(target_size, height)
         IN <<TruncU32(MulF32(width, ratio)), target_size>>

\* the bound check with < for <=
WithinTargetStrict(width, height, target_size) ==
    width < target_size /\ height < target_size

\* whether resize_image returns the original buffer
WithinTarget(width, height, target_size) ==
    width <= target_size /\ height <= target_size

\* resize_image(image_data, target_size): Ok with the original buffer, Ok
\* with a PNG, or Err. The w and h of the PNG are the new_width and
\* new_height the function computes and hands to img.resize.
resize_image(image_data, target_size) ==
    IF ~image_data.img
    THEN Err("Failed to load image for resizing", <<"decode">>)
    ELSE IF WithinTarget(image_data.w, image_data.h, target_size)
    THEN Ok(image_data, <<"decode">>)
    ELSE LET d == ResizeDims(image_data.w, image_data.h, target_size)
         IN IF ~image_data.enc
            THEN Err("Failed to encode resized image",
                     <<"decode", "resample", "encode">>)
            ELSE Ok(Raster("png", d[1], d[2], TRUE),
                    <<"decode", "resample", "encode">>)

-----------------------------------------------------------------------------
(* Paths                                                                   *)

\* greatest element of a non-empty set of integers
Max(S) == CHOOSE x \in S : \A y \in S : y <= x

\* Path::file_name of a path without trailing separator
FileName(path) ==
    LET seps == {j \in 1..Len(path) : CharAt(path, j) = "/"}
    IN IF seps = {} THEN path ELSE SubSeq(path, Max(seps) + 1, Len(path))

\* file_path.extension().and_then(|e| e.to_str()): the text after the last
\* dot of the file name; None without a dot, or when the only dot leads
PathExtension(path) ==
    LET name == FileName(path)
        dots == {j \in 1..Len(name) : CharAt(name, j) = "."}
    IN IF dots = {} \/ Max(dots) = 1 \/ name = ".." THEN None
       ELSE Some(SubSeq(name, Max(dots) + 1, Len(name)))

-----------------------------------------------------------------------------
(* The environment of one asset reference                                  *)
(*                                                                         *)
(* env.fetch_ok: ureq call() succeeds; env.body_ok: read_to_end of the     *)
(* response succeeds; env.exists: Path::exists; env.read_ok: fs::read      *)
(* succeeds; env.data: the bytes of the response or of the file.           *)

\* the remote prefixes without the protocol-relative one
IsRemoteSchemeOnly(s) == StartsWith(s, "http://") \/ StartsWith(s, "https://")

\* a data: check that never recognises an embedded reference
IsEmbeddedNever(s) == FALSE

\* whether a reference is already a data URL
IsEmbedded(s) == StartsWith(s, "data:")

\* whether a reference has a remote prefix
IsRemote(s) ==
    StartsWith(s, "http://") \/ StartsWith(s, "https://") \/ StartsWith(s, "//")

-----------------------------------------------------------------------------
(* Remote fetcher and embedder: Generator::download_and_embed_image        *)

\* the MIME type download_and_embed_image gives a raster
UrlMime(url, target_size) ==
    IF target_size.some THEN "image/png"
    ELSE IF EndsWith(url, ".jpg") \/ EndsWith(url, ".jpeg")
            \/ Contains(url, ".jpg?") \/ Contains(url, ".jpeg?")
    THEN "image/jpeg"
    ELSE IF EndsWith(url, ".gif") \/ Contains(url, ".gif?") THEN "image/gif"
    ELSE IF EndsWith(url, ".webp") \/ Contains(url, ".webp?")
    THEN "image/webp"
    ELSE IF EndsWith(url, ".ico") \/ Contains(url, ".ico?")
    THEN "image/x-icon"
    ELSE "image/png"

\* is_svg of download_and_embed_image
UrlIsSvg(url, image_data) ==
    \/ EndsWith(url, ".svg")
    \/ Contains(url, ".svg?")
    \/ (BytesLen(image_data) > 5 /\ BytesStartWith(image_data, "<?xml"))
    \/ (BytesLen(image_data) > 4 /\ BytesStartWith(image_data, "<svg"))

\* process_svg_for_inline with String::from_utf8_lossy: it never fails
process_svg_lossy(svg_data) ==
    Ok(InlineSvgMarker \o RewriteSvg(svg_data.text), <<"recolor">>)

\* process_svg_for_inline(svg_data)
process_svg_for_inline(svg_data) ==
    IF ~IsUtf8(svg_data) THEN Err("Failed to parse SVG as UTF-8", <<"recolor">>)
    ELSE Ok(InlineSvgMarker \o RewriteSvg(svg_data.text), <<"recolor">>)

\* a fallback that embeds an empty buffer when the resize fails
OrEmpty(data, resized) ==
    [data |-> IF resized.ok THEN resized.val ELSE BadText(""),
     ops |-> resized.ops]

\* match self.resize_image(..) { Ok(resized) => resized, Err(e) => data }
OrOriginal(data, resized) ==
    [data |-> IF resized.ok THEN resized.val ELSE data, ops |-> resized.ops]

\* final_data of download_and_embed_image, process_icon and
\* process_favicon: the resized buffer, or on a resize error the original
FinalData(data, target_size) ==
    IF target_size.some
    THEN OrOriginal(data, resize_image(data, target_size.v))
    ELSE [data |-> data, ops |-> <<>>]

\* the result r of a callee, after the operations ops of the caller
After(ops, r) == [r EXCEPT !.ops = ops \o r.ops]

\* Ok(format!("data:{};base64,{}", mime_type, encode(&final_data)))
Embedded(mime_type, final) == Ok(DataUri(mime_type, final.data), final.ops)

\* on Err the value resolved last by this generator, if there is one
OrLast(url, r) ==
    IF r.ok THEN r
    ELSE IF ret # <<>> THEN ret[Len(ret)]
    ELSE Ok(url, r.ops)

\* match self.download_and_embed_image(..): the data URL, or on Err the
\* URL itself
OrUrl(url, r) == IF r.ok THEN r ELSE Ok(url, r.ops)

download_and_embed_image(url, target_size, env) ==
    IF ~env.fetch_ok
    THEN Err("Failed to download image from: " \o url, <<"fetch">>)
    ELSE IF ~env.body_ok
    THEN Err("Failed to read image data from: " \o url, <<"fetch", "body">>)
    ELSE IF UrlIsSvg(url, env.data)
    THEN After(<<"fetch", "body">>, process_svg_for_inline(env.data))
    ELSE After(<<"fetch", "body">>,
               Embedded(UrlMime(url, target_size),
                        FinalData(env.data, target_size)))

-----------------------------------------------------------------------------
(* Asset resolver: Generator::process_icon                                 *)

\* the MIME type process_icon gives a local raster
IconMime(path, target_size) ==
    IF target_size.some THEN "image/png"
    ELSE LET e == PathExtension(path)
         IN IF e = Some("png") THEN "image/png"
            ELSE IF e = Some("jpg") \/ e = Some("jpeg") THEN "image/jpeg"
            ELSE IF e = Some("gif") THEN "image/gif"
            ELSE IF e = Some("webp") THEN "image/webp"
            ELSE IF e = Some("ico") THEN "image/x-icon"
            ELSE "image/png"

\* a resolver that looks for a file of the reference's name first
process_icon_file_first(icon, target_size, env) ==
    IF env.exists /\ env.read_ok
    THEN After(<<"exists", "read">>,
               Embedded(IconMime(icon, target_size),
                        FinalData(env.data, target_size)))
    ELSE IF IsEmbedded(icon) THEN Ok(icon, <<"exists">>)
    ELSE IF IsRemote(icon)
    THEN OrUrl(icon, download_and_embed_image(icon, target_size, env))
    ELSE Ok(icon, <<"exists">>)

process_icon(icon, target_size, env) ==
    IF IsEmbedded(icon) THEN Ok(icon, <<>>)
    ELSE IF IsRemote(icon)
    THEN OrUrl(icon, download_and_embed_image(icon, target_size, env))
    ELSE IF env.exists
    THEN IF ~env.read_ok
         THEN Err("Failed to read icon file: " \o icon, <<"exists", "read">>)
         ELSE IF PathExtension(icon) = Some("svg")
         THEN After(<<"exists", "read">>, process_svg_for_inline(env.data))
         ELSE After(<<"exists", "read">>,
                    Embedded(IconMime(icon, target_size),
                             FinalData(env.data, target_size)))
    ELSE Ok(icon, <<"exists">>)

-----------------------------------------------------------------------------
(* Generator::process_favicon                                              *)

\* the MIME type process_favicon gives a local file
FaviconMime(path, target_size) ==
    LET e == PathExtension(path)
    IN IF target_size.some /\ e # Some("svg") /\ e # Some("ico")
       THEN "image/png"
       ELSE IF e = Some("ico") THEN "image/x-icon"
       ELSE IF e = Some("png") THEN "image/png"
       ELSE IF e = Some("jpg") \/ e = Some("jpeg") THEN "image/jpeg"
       ELSE IF e = Some("gif") THEN "image/gif"
       ELSE IF e = Some("svg") THEN "image/svg+xml"
       ELSE IF e = Some("webp") THEN "image/webp"
       ELSE "image/x-icon"

\* is_svg || is_ico of process_favicon: the files it does not resize
FaviconKeepsBytes(path) ==
    PathExtension(path) = Some("svg") \/ PathExtension(path) = Some("ico")

\* Ok(Some(data_url)) of an Ok(data_url)
Present(r) == [r EXCEPT !.val = Some(r.val)]

\* process_favicon(target_size), with meta.favicon as a parameter: a
\* Result<Option<String>>
process_favicon(fav, target_size, env) ==
    IF ~fav.some \/ fav.v = "" THEN Ok(None, <<>>)
    ELSE IF IsEmbedded(fav.v) THEN Ok(Some(fav.v), <<>>)
    ELSE IF IsRemote(fav.v)
    THEN Present(OrUrl(fav.v,
                       download_and_embed_image(fav.v, target_size, env)))
    ELSE IF ~env.exists THEN Ok(None, <<"exists">>)
    ELSE IF ~env.read_ok
    THEN Err("Failed to read favicon file: " \o fav.v, <<"exists", "read">>)
    ELSE After(<<"exists", "read">>,
               Present(Embedded(FaviconMime(fav.v, target_size),
                                IF FaviconKeepsBytes(fav.v)
                                THEN [data |-> env.data, ops |-> <<>>]
                                ELSE FinalData(env.data, target_size))))

-----------------------------------------------------------------------------
(* QR artifact generator: Generator::generate_qr_code                      *)

\* bytes a version-40 symbol holds at the error correction level
\* QrCode::new uses (M)
QrByteCapacity == 2331

\* bytes the symbols of versions 1 to 5 hold at level M
QrSmallCapacity == <<14, 26, 42, 62, 84>>

\* the version QrCode::new picks for a payload of n bytes; the model has no
\* payload between the capacity of version 5 and the one of version 40
QrVersion(n) ==
    LET fit == {v \in 1..Len(QrSmallCapacity) : n <= QrSmallCapacity[v]}
    IN IF fit = {} THEN 40 ELSE Min(fit)

\* side of the rendered image: the modules of the symbol and of its quiet
\* zone, times the module size max_dimensions(200, 200) leaves
QrSide(n) ==
    LET modules == 17 + 4 * QrVersion(n) + 8
        unit == IF 200 \div modules = 0 THEN 1 ELSE 200 \div modules
    IN modules * unit

generate_qr_code(url) ==
    IF Len(url) > QrByteCapacity THEN Err("Failed to create QR code", <<"qr">>)
    ELSE Ok(DataUri("image/png",
                    Raster("png", QrSide(Len(url)), QrSide(Len(url)), TRUE)),
            <<"qr">>)

-----------------------------------------------------------------------------
(* Typography cascade: Typography::resolve                                 *)

\* an or_else that prefers its second argument
OrElseSecond(a, b) == IF b.some THEN b ELSE a

\* an unwrap that always takes the fallback
UnwrapNever(a, d) == d

\* Option::or_else
OrElse(a, b) == IF a.some THEN a ELSE b

\* Option::unwrap_or_else
UnwrapOr(a, d) == IF a.some THEN a.v ELSE d

\* a cascade that asks the global default color before the legacy one
resolve_default_first(typography, element, legacy_color, legacy_color_dark) ==
    [size |-> UnwrapOr(OrElse(element.size, typography.default.size), "16px"),
     font |-> UnwrapOr(OrElse(element.font, typography.default.font),
                       "system-ui, -apple-system, sans-serif"),
     weight |-> UnwrapOr(OrElse(element.weight, typography.default.weight),
                         "normal"),
     style |-> UnwrapOr(OrElse(element.style, typography.default.style),
                        "normal"),
     color |-> UnwrapOr(OrElse(OrElse(element.color, typography.default.color),
                               legacy_color), "#000000"),
     color_dark |-> OrElse(OrElse(element.color_dark, legacy_color_dark),
                           typography.default.color_dark)]

\* a cascade that is given no legacy colors
resolve_without_legacy(typography, element, legacy_color, legacy_color_dark) ==
    [size |-> UnwrapOr(OrElse(element.size, typography.default.size), "16px"),
     font |-> UnwrapOr(OrElse(element.font, typography.default.font),
                       "system-ui, -apple-system, sans-serif"),
     weight |-> UnwrapOr(OrElse(element.weight, typography.default.weight),
                         "normal"),
     style |-> UnwrapOr(OrElse(element.style, typography.default.style),
                        "normal"),
     color |-> UnwrapOr(OrElse(element.color, typography.default.color),
                        "#000000"),
     color_dark |-> OrElse(element.color_dark, typography.default.color_dark)]

resolve(typography, element, legacy_color, legacy_color_dark) ==
    [size |-> UnwrapOr(OrElse(element.size, typography.default.size), "16px"),
     font |-> UnwrapOr(OrElse(element.font, typography.default.font),
                       "system-ui, -apple-system, sans-serif"),
     weight |-> UnwrapOr(OrElse(element.weight, typography.default.weight),
                         "normal"),
     style |-> UnwrapOr(OrElse(element.style, typography.default.style),
                        "normal"),
     color |-> UnwrapOr(OrElse(OrElse(element.color, legacy_color),
                               typography.default.color), "#000000"),
     color_dark |-> OrElse(OrElse(element.color_dark, legacy_color_dark),
                           typography.default.color_dark)]

-----------------------------------------------------------------------------
(* Config::validate                                                        *)

UpperChars == "ABCDEFGHIJKLMNOPQRSTUVWXYZ"
LowerChars == "abcdefghijklmnopqrstuvwxyz"

LowerChar(c) ==
    LET at == {j \in 1..Len(UpperChars) : CharAt(UpperChars, j) = c}
    IN IF at = {} THEN c ELSE CharAt(LowerChars, Min(at))

\* a lowercasing that changes nothing
KeepCase(s) == s

RECURSIVE ToLower(_)
\* str::to_lowercase of an ASCII string
ToLower(s) ==
    IF s = "" THEN ""
    ELSE LowerChar(CharAt(s, 1)) \o ToLower(SubSeq(s, 2, Len(s)))

\* the check of one link: its link type and, for a block, its title
LinkValid(link) ==
    LET link_type == ToLower(link.link_type)
    IN /\ link_type \in {"block", "space"}
       /\ link_type = "block" => (link.title.some /\ link.title.v # "")

\* a validation that accepts every configuration
validate_nothing(c) == TRUE

\* Config::validate returns Ok
validate(c) ==
    /\ c.name # ""
    /\ c.links # <<>>
    /\ ToLower(c.dark_mode) \in {"auto", "light", "dark", "disable"}
    /\ \A i \in 1..Len(c.links) : LinkValid(c.links[i])

-----------------------------------------------------------------------------
(* Configurations                                                          *)

MaxAssets == 1

\* the numbers of social links and of links of those configurations
SocialLens == {0, 1}

LinkLens == {1}

\* Typography::default() and ThemeColors::default()
DefaultTypography ==
    [default |-> [size |-> Some("16px"),
                  font |-> Some("system-ui, -apple-system, sans-serif"),
                  weight |-> Some("normal"), style |-> Some("normal"),
                  color |-> Some("#000000"), color_dark |-> None],
     header |-> [size |-> Some("2rem"), font |-> None, weight |-> Some("700"),
                 style |-> Some("normal"), color |-> Some("#000000"),
                 color_dark |-> None],
     bio |-> [size |-> Some("1.1rem"), font |-> None,
              weight |-> Some("normal"), style |-> Some("normal"),
              color |-> Some("rgba(0, 0, 0, 0.7)"), color_dark |-> None],
     link_title |-> [size |-> Some("1.1rem"), font |-> None,
                     weight |-> Some("600"), style |-> Some("normal"),
                     color |-> Some("#000000"), color_dark |-> None],
     link_description |-> [size |-> Some("0.9rem"), font |-> None,
                           weight |-> Some("normal"),
                           style |-> Some("normal"),
                           color |-> Some("rgba(0, 0, 0, 0.6)"),
                           color_dark |-> None]]

DefaultThemeColors ==
    [header_color |-> "#000000", bio_color |-> "rgba(0, 0, 0, 0.7)",
     link_title_color |-> "#000000",
     link_description_color |-> "rgba(0, 0, 0, 0.6)"]

\* TypographyStyle::default(): nothing overridden
NoStyle ==
    [size |-> None, font |-> None, weight |-> None, style |-> None,
     color |-> None, color_dark |-> None]

\* a theme that overrides nothing in its typography tables
BareTypography ==
    [default |-> NoStyle, header |-> NoStyle, bio |-> NoStyle,
     link_title |-> NoStyle, link_description |-> NoStyle]

\* ImageSettings::default()
DefaultImage ==
    [avatar_size |-> 512, social_icon_size |-> 128, link_icon_size |-> 128,
     favicon_size |-> 64]

RECURSIVE Doubled(_, _)
\* s repeated 2^n times
Doubled(s, n) == IF n = 0 THEN s ELSE Doubled(s \o s, n - 1)

\* a destination longer than any QR symbol holds (4096 bytes)
LongUrl == Doubled("https://example.com/aaaaaaaaaaaa", 7)

PageUrls == {None, Some(""), Some("https://example.com"), Some(LongUrl)}

\* asset references of a configuration
GenRefs ==
    {"data:image/png;base64,AAAA", "https://h/b.gif?v=1", "img/c.svg",
     "a.png"}

OptRefs == {None, Some("")} \cup {Some(r) : r \in GenRefs}

BlockLink(icon) ==
    [title |-> Some("My Website"), url |-> Some("https://example.com"),
     icon |-> icon, description |-> None, link_type |-> "block",
     height |-> None]

RECURSIVE SeqsUpTo(_, _)
\* the sequences over S of length at most n
SeqsUpTo(S, n) ==
    IF n = 0 THEN {<<>>}
    ELSE SeqsUpTo(S, n - 1) \cup
         {Append(q, x) : q \in {p \in SeqsUpTo(S, n - 1) : Len(p) = n - 1},
                         x \in S}

\* the number of asset slots of a configuration that are set
AssetCount(c) ==
    Cardinality({k \in {"light", "dark"} : c.avatar[k] # ""})
    + Cardinality({i \in 1..Len(c.social) : c.social[i] # ""})
    + Cardinality({i \in 1..Len(c.links) : c.links[i].icon.some})
    + (IF c.favicon.some THEN 1 ELSE 0)

BaseConfig ==
    [name |-> "Ann", avatar |-> [light |-> "", dark |-> ""],
     social |-> <<>>, links |-> <<BlockLink(None)>>, dark_mode |-> "disable",
     page_url |-> None, favicon |-> None, image |-> DefaultImage,
     typography |-> DefaultTypography, light |-> DefaultThemeColors,
     dark |-> DefaultThemeColors]

\* configurations with the avatars set, then the social links, then the
\* links, then the favicon, of at most MaxAssets asset slots in all
WithAvatars ==
    {c \in {[BaseConfig EXCEPT !.avatar = [light |-> la, dark |-> da]] :
               la \in {""} \cup GenRefs, da \in {""} \cup GenRefs} :
        AssetCount(c) <= MaxAssets}

WithSocial ==
    {c \in {[b EXCEPT !.social = so] :
               b \in WithAvatars,
               so \in {q \in SeqsUpTo({""} \cup GenRefs, Max(SocialLens)) :
                          Len(q) \in SocialLens}} :
        AssetCount(c) <= MaxAssets}

WithLinks ==
    {c \in {[b EXCEPT !.links = li] :
               b \in WithSocial,
               li \in {q \in SeqsUpTo({BlockLink(i) : i \in OptRefs},
                                      Max(LinkLens)) : Len(q) \in LinkLens}} :
        AssetCount(c) <= MaxAssets}

WithFavicon ==
    {c \in {[b EXCEPT !.favicon = fa] : b \in WithLinks, fa \in OptRefs} :
        AssetCount(c) <= MaxAssets}

\* configurations that differ in their assets and destination URL
AssetConfigs ==
    {[b EXCEPT !.page_url = pu] : b \in WithFavicon, pu \in PageUrls}

SpaceLink ==
    [title |-> None, url |-> None, icon |-> None, description |-> None,
     link_type |-> "Space", height |-> None]

\* configurations that differ in what validate() reads, and in the theme
ValidationConfigs ==
    {[BaseConfig EXCEPT !.name = ""],
     [BaseConfig EXCEPT !.links = <<>>],
     [BaseConfig EXCEPT !.dark_mode = "Auto"],
     [BaseConfig EXCEPT !.dark_mode = "night"],
     [BaseConfig EXCEPT !.links = <<BlockLink(None), SpaceLink>>],
     [BaseConfig EXCEPT !.links =
         <<[BlockLink(None) EXCEPT !.link_type = "button"]>>],
     [BaseConfig EXCEPT !.links = <<[BlockLink(None) EXCEPT !.title = None]>>],
     [BaseConfig EXCEPT !.links =
         <<[BlockLink(None) EXCEPT !.title = Some("")]>>],
     [BaseConfig EXCEPT !.typography = BareTypography]}

\* a configuration with a link without icon between two links with one
OrderedConfig ==
    [BaseConfig EXCEPT
        !.avatar = [light |-> "a.png", dark |-> ""],
        !.links = <<BlockLink(Some("https://h/b.gif?v=1")), BlockLink(None),
                    BlockLink(Some("img/c.svg"))>>,
        !.page_url = Some("https://example.com")]

\* dark_mode.mode values, and links, in several spellings
ModeSamples == {"auto", "LIGHT", "Dark", "disable", "night", ""}

LinkSamples ==
    {[SpaceLink EXCEPT !.link_type = t, !.title = ti, !.height = h] :
        t \in {"block", "Block", "SPACE", "button"},
        ti \in {None, Some(""), Some("T")},
        h \in {None, Some(24)}}

\* configurations over those spellings, and invalid ones with assets to
\* resolve
SpelledConfigs ==
    {[BaseConfig EXCEPT !.dark_mode = m, !.links = <<BlockLink(None), l>>] :
        m \in ModeSamples, l \in LinkSamples}
    \cup {[BaseConfig EXCEPT !.links = <<l>>] : l \in LinkSamples}
    \cup {[OrderedConfig EXCEPT !.name = ""],
          [OrderedConfig EXCEPT !.dark_mode = "night"],
          [OrderedConfig EXCEPT !.links[2].title = None]}

\* image settings with a different size for every role
SizedImage ==
    [avatar_size |-> 300, social_icon_size |-> 40, link_icon_size |-> 50,
     favicon_size |-> 20]

\* a configuration with those settings and a local image in every role
SizedConfig ==
    [BaseConfig EXCEPT
        !.avatar = [light |-> "", dark |-> "a.png"],
        !.social = <<"a.png">>,
        !.links = <<BlockLink(Some("a.png"))>>,
        !.favicon = Some("a.png"),
        !.image = SizedImage]

\* a style that sets both colors, and legacy theme colors that differ from
\* every typography color and from "#000000"; one legacy color is empty
TintedStyle(color, color_dark) ==
    [NoStyle EXCEPT !.color = Some(color), !.color_dark = Some(color_dark)]

LightTints ==
    [header_color |-> "#111111", bio_color |-> "#222222",
     link_title_color |-> "", link_description_color |-> "#444444"]

DarkTints ==
    [header_color |-> "#aaaaaa", bio_color |-> "#bbbbbb",
     link_title_color |-> "#cccccc", link_description_color |-> ""]

\* configurations whose global default and whose bio role set their colors
\* or not
TintedConfigs ==
    {[BaseConfig EXCEPT
         !.typography = [BareTypography EXCEPT !.default = d, !.bio = b],
         !.light = LightTints, !.dark = DarkTints] :
        d \in {NoStyle, TintedStyle("#d0d0d0", "#dddddd")},
        b \in {NoStyle, TintedStyle("#b10b10", "#b1db1d"),
               [NoStyle EXCEPT !.color = Some("#b10b10")]}}

GenConfigs ==
    AssetConfigs \cup ValidationConfigs \cup {OrderedConfig}
    \cup SpelledConfigs \cup {SizedConfig} \cup TintedConfigs

SvgSample == "<svg width=\"9\" fill=\"red\"><path stroke=\"none\"/></svg>"

\* buffers the files and responses of a run hold
GenData ==
    {Raster("png", 1000, 500, TRUE), Text(SvgSample), BadText("<svg"),
     BadText("")}

\* no request answered, no file found
NoAnswer ==
    [fetch_ok |-> FALSE, body_ok |-> FALSE, exists |-> FALSE,
     read_ok |-> FALSE, data |-> BadText("")]

\* what the environment can answer for one reference
AssetEnvs(ref) ==
    IF IsEmbedded(ref) \/ ref = "" THEN {NoAnswer}
    ELSE IF IsRemote(ref)
    THEN {NoAnswer} \cup {[NoAnswer EXCEPT !.fetch_ok = TRUE,
                                           !.body_ok = TRUE, !.data = d] :
                             d \in GenData}
    ELSE {NoAnswer, [NoAnswer EXCEPT !.exists = TRUE]}
         \cup {[NoAnswer EXCEPT !.exists = TRUE, !.read_ok = TRUE,
                                !.data = d] : d \in GenData}

-----------------------------------------------------------------------------
(* Pipeline orchestrator: Generator::generate                              *)
(*                                                                         *)
(* One action per fallible step of generate(), in the order of the code.   *)
(* What the file system, the network and the template engine answer is     *)
(* drawn when the step asks.                                               *)

\* a direct call that has not returned, and one that returned r
Pending == [done |-> FALSE]

Returned(r) == [done |-> TRUE, r |-> r]

Event(step, slot, ok, ops) ==
    [step |-> step, slot |-> slot, ok |-> ok, ops |-> ops]

\* generate() returns Err: the ? operator
Fail(step, slot, ops) ==
    /\ pc' = "done"
    /\ result' = "Err"
    /\ events' = Append(events, Event(step, slot, FALSE, ops))

Init ==
    /\ pc = "validate"
    /\ cfg \in GenConfigs
    /\ profile = None
    /\ links = <<>>
    /\ idx = 0
    /\ qr = None
    /\ favicon = None
    /\ typo = None
    /\ ctx = <<>>
    /\ result = "running"
    /\ written = FALSE
    /\ events = <<>>
    /\ call = None
    /\ ret = Pending

\* self.config.validate()?
Validate ==
    /\ pc = "validate"
    /\ IF validate(cfg)
       THEN /\ pc' = "load_theme"
            /\ events' = Append(events, Event("validate", "", TRUE, <<>>))
            /\ UNCHANGED result
       ELSE Fail("validate", "", <<>>)
    /\ UNCHANGED <<cfg, profile, links, idx, qr, favicon, typo, ctx, written,
                   call, ret>>

\* load_theme_file of template.html and style.css (fatal when missing) and
\* of script.js (empty when missing)
LoadTheme ==
    /\ pc = "load_theme"
    /\ \E missing \in {"", "template.html", "style.css", "script.js"} :
          IF missing \in {"template.html", "style.css"}
          THEN Fail("load_theme", missing, <<>>)
          ELSE /\ pc' = "add_css"
               /\ events' =
                    Append(events, Event("load_theme", missing, TRUE, <<>>))
               /\ UNCHANGED result
    /\ UNCHANGED <<cfg, profile, links, idx, qr, favicon, typo, ctx, written,
                   call, ret>>

\* tera.add_raw_template("style.css", ..)?, then the clones of the profile
\* and of the links
AddCssTemplate ==
    /\ pc = "add_css"
    /\ \E parsed \in BOOLEAN :
          IF parsed
          THEN /\ pc' = "icons"
               /\ idx' = 1
               /\ profile' = [avatar |-> cfg.avatar, social |-> cfg.social]
               /\ links' = cfg.links
               /\ events' = Append(events, Event("add_css", "", TRUE, <<>>))
               /\ UNCHANGED result
          ELSE Fail("add_css", "", <<>>) /\ UNCHANGED <<profile, links, idx>>
    /\ UNCHANGED <<cfg, qr, favicon, typo, ctx, written, call, ret>>

\* the icon slots generate() visits, in its order: the two avatars, the
\* social links, the links
IconSlots ==
    <<[kind |-> "avatar", key |-> "light"], [kind |-> "avatar", key |-> "dark"]>>
    \o [i \in 1..Len(cfg.social) |-> [kind |-> "social", key |-> i]]
    \o [i \in 1..Len(cfg.links) |-> [kind |-> "link", key |-> i]]

\* every slot taken for a reference, an absent link icon for an empty one
SlotRefUnchecked(slot) ==
    CASE slot.kind = "avatar" -> Some(profile.avatar[slot.key])
      [] slot.kind = "social" -> Some(profile.social[slot.key])
      [] slot.kind = "link" ->
            IF links[slot.key].icon.some THEN links[slot.key].icon
            ELSE Some("")

\* the reference a slot holds; None where generate() does not call
\* process_icon (an empty string, a link without icon)
SlotRef(slot) ==
    CASE slot.kind = "avatar" ->
            IF profile.avatar[slot.key] = "" THEN None
            ELSE Some(profile.avatar[slot.key])
      [] slot.kind = "social" ->
            IF profile.social[slot.key] = "" THEN None
            ELSE Some(profile.social[slot.key])
      [] slot.kind = "link" ->
            IF links[slot.key].icon.some /\ links[slot.key].icon.v # ""
            THEN links[slot.key].icon ELSE None

\* the avatar size asked for every slot
AvatarSizeForAll(slot) == cfg.image.avatar_size

\* the size generate() asks for
SlotSize(slot) ==
    CASE slot.kind = "avatar" -> cfg.image.avatar_size
      [] slot.kind = "social" -> cfg.image.social_icon_size
      [] slot.kind = "link" -> cfg.image.link_icon_size

\* one icon of the profile or of the links: process_icon, the slot replaced
\* on Ok, a warning on Err
ProcessIcon ==
    /\ pc = "icons"
    /\ IF idx > Len(IconSlots)
       THEN /\ pc' = "typography"
            /\ idx' = 0
            /\ UNCHANGED <<profile, links, events>>
       ELSE /\ idx' = idx + 1
            /\ UNCHANGED pc
            /\ \E slot \in {IconSlots[idx]} :
               \E ref \in {SlotRef(slot)}, size \in {SlotSize(slot)} :
                  IF ~ref.some
                  THEN UNCHANGED <<profile, links, events>>
                  ELSE \E env \in AssetEnvs(ref.v) :
                       \E r \in {process_icon(ref.v, Some(size), env)} :
                          /\ profile' =
                               IF r.ok /\ slot.kind = "avatar"
                               THEN [profile EXCEPT !.avatar[slot.key] = r.val]
                               ELSE IF r.ok /\ slot.kind = "social"
                               THEN [profile EXCEPT !.social[slot.key] = r.val]
                               ELSE profile
                          /\ links' =
                               IF r.ok /\ slot.kind = "link"
                               THEN [links EXCEPT
                                        ![slot.key].icon = Some(r.val)]
                               ELSE links
                          /\ events' = Append(events,
                                         Event("resolve", slot.kind, r.ok, r.ops))
    /\ UNCHANGED <<cfg, qr, favicon, typo, ctx, result, written, call, ret>>

\* the four calls of typography.resolve, with the theme's colors
ResolveTypography ==
    /\ pc = "typography"
    /\ pc' = "render_css"
    /\ typo' = Some(
         [header |-> resolve(cfg.typography, cfg.typography.header,
                             Some(cfg.light.header_color),
                             Some(cfg.dark.header_color)),
          bio |-> resolve(cfg.typography, cfg.typography.bio,
                          Some(cfg.light.bio_color), Some(cfg.dark.bio_color)),
          link_title |-> resolve(cfg.typography, cfg.typography.link_title,
                                 Some(cfg.light.link_title_color),
                                 Some(cfg.dark.link_title_color)),
          link_description |->
              resolve(cfg.typography, cfg.typography.link_description,
                      Some(cfg.light.link_description_color),
                      Some(cfg.dark.link_description_color))])
    /\ events' = Append(events, Event("typography", "", TRUE, <<>>))
    /\ UNCHANGED <<cfg, profile, links, idx, qr, favicon, ctx, result, written,
                   call, ret>>

\* tera.render("style.css", &css_context)?
RenderCss ==
    /\ pc = "render_css"
    /\ \E rendered \in BOOLEAN :
          IF rendered
          THEN /\ pc' = "add_html"
               /\ events' = Append(events, Event("render_css", "", TRUE, <<>>))
               /\ UNCHANGED result
          ELSE Fail("render_css", "", <<>>)
    /\ UNCHANGED <<cfg, profile, links, idx, qr, favicon, typo, ctx, written,
                   call, ret>>

\* html_tera.add_raw_template("template.html", ..)?
AddHtmlTemplate ==
    /\ pc = "add_html"
    /\ \E parsed \in BOOLEAN :
          IF parsed
          THEN /\ pc' = "qr"
               /\ events' = Append(events, Event("add_html", "", TRUE, <<>>))
               /\ UNCHANGED result
          ELSE Fail("add_html", "", <<>>)
    /\ UNCHANGED <<cfg, profile, links, idx, qr, favicon, typo, ctx, written,
                   call, ret>>

\* a test that takes an empty page_url for a destination
QrWantedIfPresent(page_url) == page_url.some

\* if let Some(ref page_url) = meta.page_url, and !page_url.is_empty()
QrWanted(page_url) == page_url.some /\ page_url.v # ""

\* qr_code_data: Some(self.generate_qr_code(page_url)?) for a non-empty
\* page_url, None otherwise
QrCode ==
    /\ pc = "qr"
    /\ IF QrWanted(cfg.page_url)
       THEN \E page_url \in {cfg.page_url.v} :
            \E r \in {generate_qr_code(page_url)} :
               IF r.ok
               THEN /\ qr' = Some(r.val)
                    /\ pc' = "favicon"
                    /\ events' = Append(events, Event("qr", "", TRUE, r.ops))
                    /\ UNCHANGED result
               ELSE Fail("qr", "", r.ops) /\ UNCHANGED qr
       ELSE /\ qr' = None
            /\ pc' = "favicon"
            /\ UNCHANGED <<events, result>>
    /\ UNCHANGED <<cfg, profile, links, idx, favicon, typo, ctx, written, call,
                   ret>>

\* self.process_favicon(favicon_size)?
Favicon ==
    /\ pc = "favicon"
    /\ \E fav \in {cfg.favicon}, size \in {cfg.image.favicon_size} :
       \E env \in AssetEnvs(IF fav.some THEN fav.v ELSE "") :
          \E r \in {process_favicon(fav, Some(size), env)} :
             IF r.ok
             THEN /\ favicon' = r.val
                  /\ pc' = "render_html"
                  /\ events' = Append(events,
                                      Event("resolve", "favicon", TRUE, r.ops))
                  /\ UNCHANGED result
             ELSE Fail("resolve", "favicon", r.ops) /\ UNCHANGED favicon
    /\ UNCHANGED <<cfg, profile, links, idx, qr, typo, ctx, written, call, ret>>

\* the html_context generate() builds
HtmlContext ==
    [k \in {"profile", "theme", "dark_mode", "meta", "links", "css", "js"}
          \cup (IF qr.some THEN {"qr_code_data"} ELSE {}) |->
        CASE k = "profile" -> profile
          [] k = "theme" -> cfg.typography
          [] k = "dark_mode" -> cfg.dark_mode
          [] k = "meta" ->
                [page_url |-> cfg.page_url,
                 favicon |-> IF favicon.some THEN favicon ELSE cfg.favicon]
          [] k = "links" -> links
          [] k = "css" -> "css"
          [] k = "js" -> "js"
          [] k = "qr_code_data" -> qr.v]

\* the html_context, then html_tera.render("template.html", ..)?
RenderHtml ==
    /\ pc = "render_html"
    /\ ctx' = HtmlContext
    /\ \E rendered \in BOOLEAN :
          IF rendered
          THEN /\ pc' = "create_dir"
               /\ events' = Append(events, Event("render_html", "", TRUE, <<>>))
               /\ UNCHANGED result
          ELSE Fail("render_html", "", <<>>)
    /\ UNCHANGED <<cfg, profile, links, idx, qr, favicon, typo, written, call,
                   ret>>

\* fs::create_dir_all(parent)?
CreateDir ==
    /\ pc = "create_dir"
    /\ \E created \in BOOLEAN :
          IF created
          THEN /\ pc' = "write"
               /\ events' = Append(events, Event("create_dir", "", TRUE, <<>>))
               /\ UNCHANGED result
          ELSE Fail("create_dir", "", <<>>)
    /\ UNCHANGED <<cfg, profile, links, idx, qr, favicon, typo, ctx, written,
                   call, ret>>

\* fs::write(&self.output_path, rendered_html)?, then Ok(())
WriteOutput ==
    /\ pc = "write"
    /\ \E wrote \in BOOLEAN :
          IF wrote
          THEN /\ pc' = "done"
               /\ written' = TRUE
               /\ result' = "Ok"
               /\ events' = Append(events, Event("write", "", TRUE, <<>>))
          ELSE Fail("write", "", <<>>) /\ UNCHANGED written
    /\ UNCHANGED <<cfg, profile, links, idx, qr, favicon, typo, ctx, call, ret>>

Next ==
    \/ Validate
    \/ LoadTheme
    \/ AddCssTemplate
    \/ ProcessIcon
    \/ ResolveTypography
    \/ RenderCss
    \/ AddHtmlTemplate
    \/ QrCode
    \/ Favicon
    \/ RenderHtml
    \/ CreateDir
    \/ WriteOutput

Spec == Init /\ [][Next]_vars

-----------------------------------------------------------------------------
(* Claims about generate(), checked under Spec                             *)

\* the step at which a run that returned Err stopped
FailedStep == events[Len(events)]

\* C1 as stated: no failure of the resolution of a single asset (an
\* avatar, a social icon, a link icon or the favicon) makes generate()
\* return an error: a run that returns Err stopped at another step.
C1_AssetFailureNeverFatal ==
    (pc = "done" /\ result = "Err") => FailedStep.step # "resolve"

\* C3 as stated: when a non-empty page_url is configured and the QR
\* encoding fails, the run is not aborted: no run returns Err at the QR
\* step, and the output is written without the qr_code_data key.
C3_QrFailureNotFatal ==
    (pc = "done" /\ cfg.page_url.some /\ cfg.page_url.v # ""
     /\ ~generate_qr_code(cfg.page_url.v).ok
     /\ \A i \in 1..Len(events) :
           events[i].ok \/ events[i].step \in {"resolve", "qr"})
    => (result = "Ok" /\ written /\ "qr_code_data" \notin DOMAIN ctx)

-----------------------------------------------------------------------------
(* Direct calls of one function: the inputs are drawn in the initial       *)
(* state, the call stores what the function returns.                       *)

\* generate() is not running
GenIdle ==
    /\ pc = "idle"
    /\ cfg = None
    /\ profile = None
    /\ links = <<>>
    /\ idx = 0
    /\ qr = None
    /\ favicon = None
    /\ typo = None
    /\ ctx = <<>>
    /\ result = "idle"
    /\ written = FALSE
    /\ events = <<>>

\* asset references: embedded, remote, local paths, literal text
IconRefs ==
    {"data:image/png;base64,AAAA", "http://h/a.jpg", "https://h/b.gif?v=1",
     "//h/c", "https://h/d.svg", "a.png", "b.jpeg", "img/c.svg", "d.ico",
     "e.webp", ".svg", ":-)", "http"}

\* resize targets: none, and two maximum dimensions
IconTargets == {None, Some(64), Some(200)}

\* buffers a file or a response can hold
DataSamples ==
    {Raster("jpeg", 48, 48, TRUE), Raster("gif", 100, 150, TRUE),
     Raster("png", 1000, 500, TRUE), Raster("jpeg", 1000, 500, FALSE),
     Text("<html>not found</html>"), Text(SvgSample),
     Text("<?xml version=\"1.0\"?>" \o SvgSample), BadText("<svg"),
     BadText("")}

IconEnvs ==
    [fetch_ok : BOOLEAN, body_ok : BOOLEAN, exists : BOOLEAN,
     read_ok : BOOLEAN, data : DataSamples]

InitIcon ==
    /\ GenIdle
    /\ call \in [icon : IconRefs, target : IconTargets, env : IconEnvs]
    /\ ret = Pending

CallProcessIcon ==
    /\ ~ret.done
    /\ ret' = Returned(process_icon(call.icon, call.target, call.env))
    /\ UNCHANGED <<call, genVars>>

NextIcon == CallProcessIcon

SpecIcon == InitIcon /\ [][NextIcon]_vars

-----------------------------------------------------------------------------
(* Claims about process_icon, checked under SpecIcon                       *)

\* the remote prefixes: http://, https:// and //
HasRemotePrefix(s) ==
    \E prefix \in {"http://", "https://", "//"} : StartsWith(s, prefix)

\* the call reached the raster branch of a remote or of a local reference
RasterBranch ==
    /\ ~StartsWith(call.icon, "data:")
    /\ IF HasRemotePrefix(call.icon)
       THEN call.env.fetch_ok /\ call.env.body_ok
            /\ ~UrlIsSvg(call.icon, call.env.data)
       ELSE call.env.exists /\ call.env.read_ok
            /\ PathExtension(call.icon) # Some("svg")

\* the call is the one of a local file that cannot be read, or of a local
\* .svg file that is not valid UTF-8
LocalErrCase ==
    /\ ~StartsWith(call.icon, "data:")
    /\ ~HasRemotePrefix(call.icon)
    /\ call.env.exists
    /\ \/ ~call.env.read_ok
       \/ PathExtension(call.icon) = Some("svg") /\ ~IsUtf8(call.env.data)

\* C2 as stated: process_icon never returns an error to its caller, for
\* every reference, target and outcome of read, fetch, decode and resize.
C2_NeverErr == ret.done => ret.r.ok

\* C2 as amended: process_icon returns an error exactly when the reference
\* names an existing local file that cannot be read or a local .svg file
\* that is not valid UTF-8; in every other case it returns Ok, and when a
\* remote reference cannot be fetched, read or decoded as SVG text the
\* string it returns is the original reference.
C2_ErrOnlyLocalReadOrSvg ==
    ret.done =>
        /\ ret.r.ok <=> ~LocalErrCase
        /\ (HasRemotePrefix(call.icon)
            /\ ~download_and_embed_image(call.icon, call.target, call.env).ok)
           => ret.r.val = call.icon

C2_Witness ==
    /\ ret.done
    /\ ~ret.r.ok
    /\ call.env.read_ok
    /\ call.icon = "img/c.svg"

\* C4: when the fetch of a remote reference fails (the call or the read of
\* the body), process_icon returns Ok with exactly the original reference,
\* for every resize target.
C4_FetchFailureKeepsUrl ==
    (ret.done /\ HasRemotePrefix(call.icon)
     /\ (~call.env.fetch_ok \/ ~call.env.body_ok))
    => (ret.r.ok /\ ret.r.val = call.icon)

C4_Witness ==
    /\ ret.done
    /\ call.icon = "//h/c"
    /\ ~call.env.fetch_ok
    /\ call.target = Some(64)
    /\ ret.r.val = "//h/c"

\* the operations that read a file, fetch, decode or transform
HeavyOps == {"read", "fetch", "body", "decode", "resample", "encode", "recolor"}

\* C5: a reference that starts with data:, and a reference without remote
\* prefix that names no existing file, is returned unchanged for every
\* target, and no file read, fetch, decode or resize is performed.
C5_PassThrough ==
    (ret.done
     /\ (StartsWith(call.icon, "data:")
         \/ (~HasRemotePrefix(call.icon) /\ ~call.env.exists)))
    => /\ ret.r.ok
       /\ ret.r.val = call.icon
       /\ \A i \in 1..Len(ret.r.ops) : ret.r.ops[i] \notin HeavyOps

C5_Witness ==
    /\ ret.done
    /\ StartsWith(call.icon, "data:")
    /\ call.env.exists
    /\ call.target = Some(64)
    /\ ret.r.val = call.icon

\* the MIME type the extension of a reference stands for
ExtensionMime(ref) ==
    IF HasRemotePrefix(ref) THEN UrlMime(ref, None) ELSE IconMime(ref, None)

\* the buffer a raster call embeds is the original one, not a re-encoded one
EmbedsOriginal ==
    \/ ~call.target.some
    \/ ~resize_image(call.env.data, call.target.v).ok
    \/ resize_image(call.env.data, call.target.v).val = call.env.data

\* C8 as stated: whenever the embedded bytes are the original ones (no
\* target, image within the target, or resize failed) the MIME type of the
\* data URI is the one of the reference's extension; image/png is forced
\* only for an image that was resized and re-encoded.
C8_MimeOfOriginalBytes ==
    (ret.done /\ RasterBranch /\ EmbedsOriginal)
    => ret.r.val = DataUri(ExtensionMime(call.icon), call.env.data)

\* C9: when a raster asset has a target and resize_image fails (decode or
\* encode error), process_icon returns Ok with a base64 data URI whose
\* payload is the original buffer.
C9_ResizeFailureEmbedsOriginal ==
    (ret.done /\ RasterBranch /\ call.target.some
     /\ ~resize_image(call.env.data, call.target.v).ok)
    => /\ ret.r.ok
       /\ StartsWith(ret.r.val, "data:")
       /\ EndsWith(ret.r.val, ";base64," \o Base64(call.env.data))

C9_Witness ==
    /\ ret.done
    /\ RasterBranch
    /\ call.target = Some(200)
    /\ call.env.data = Raster("jpeg", 1000, 500, FALSE)
    /\ HasRemotePrefix(call.icon)
    /\ ret.r.ok

-----------------------------------------------------------------------------
(* Direct calls of resize_image                                            *)

MaxDim == 42
MaxTarget == 8

\* images of the sizes of the documented examples and of a tall banner
ResizeSamples ==
    {[data |-> Raster("png", 1000, 500, TRUE), target |-> 200],
     [data |-> Raster("png", 500, 1000, TRUE), target |-> 200],
     [data |-> Raster("png", 600, 600, TRUE), target |-> 512],
     [data |-> Raster("png", 107, 428, TRUE), target |-> 64],
     [data |-> Text("<html>not found</html>"), target |-> 64],
     [data |-> BadText(""), target |-> 64]}

ResizeInputs ==
    ResizeSamples \cup
    [data : {Raster("jpeg", w, h, enc) :
                w \in 1..MaxDim, h \in 1..MaxDim, enc \in BOOLEAN},
     target : 1..MaxTarget]

InitResize ==
    /\ GenIdle
    /\ call \in ResizeInputs
    /\ ret = Pending

CallResizeImage ==
    /\ ~ret.done
    /\ ret' = Returned(resize_image(call.data, call.target))
    /\ UNCHANGED <<call, genVars>>

NextResize == CallResizeImage

SpecResize == InitResize /\ [][NextResize]_vars

\* C6: for a decodable image whose width and height are both at most the
\* target, resize_image returns Ok with exactly its input buffer.
C6_WithinTargetIsIdentity ==
    (ret.done /\ call.data.img
     /\ call.data.w <= call.target /\ call.data.h <= call.target)
    => (ret.r.ok /\ ret.r.val = call.data)

C6_Witness ==
    /\ ret.done
    /\ call.data.img
    /\ call.data.w = call.target
    /\ call.data.h < call.target
    /\ ret.r.val = call.data

\* C7 as stated: for an image with w > T or h > T the computed dimensions
\* have the longer edge equal to T and the shorter edge equal to
\* floor(shorter * T / longer); a square image gives T x T.
C7_ExactFloor ==
    LET w == call.data.w
        h == call.data.h
        T == call.target
    IN (ret.done /\ call.data.img /\ (w > T \/ h > T) /\ ret.r.ok)
       => IF w > h
          THEN ret.r.val.w = T /\ ret.r.val.h = (h * T) \div w
          ELSE ret.r.val.h = T /\ ret.r.val.w = (w * T) \div h

-----------------------------------------------------------------------------
(* Direct calls of process_svg_for_inline                                  *)

MaxFrags == 3

\* pieces of SVG documents
SvgFragments ==
    {"<svg", ">", " fill=\"red\"", " fill=\"none\"", " stroke=\"#000\"",
     " stroke=\"none\"", " style=\"fill:red;\"", " style=\"fill: none\"",
     " style=\"stroke:none;fill:blue\"", " width=\"24\"", "<!--c-->",
     "<?xml v?>"}

RECURSIVE SvgTexts(_)
\* the concatenations of at most n fragments
SvgTexts(n) ==
    IF n = 0 THEN {""}
    ELSE SvgTexts(n - 1) \cup
         {t \o f : t \in SvgTexts(n - 1), f \in SvgFragments}

InitSvg ==
    /\ GenIdle
    /\ call \in {Text(t) : t \in SvgTexts(MaxFrags)} \cup {BadText("<svg")}
    /\ ret = Pending

CallProcessSvg ==
    /\ ~ret.done
    /\ ret' = Returned(process_svg_for_inline(call))
    /\ UNCHANGED <<call, genVars>>

NextSvg == CallProcessSvg

SpecSvg == InitSvg /\ [][NextSvg]_vars

\* the number of name="v" attributes of the text s with v = none (isNone)
\* or with v # none
AttrCount(s, name, isNone) ==
    Cardinality({i \in 1..Len(s) :
        /\ AttrLen(s, i, name) > 0
        /\ (SubSeq(s, i, i + AttrLen(s, i, name) - 1) = name \o "=\"none\"")
           = isNone})

\* C10 as stated: in the output every fill="v" and stroke="v" attribute of
\* the input with v # none appears as fill="currentColor" /
\* stroke="currentColor", and every fill="none" / stroke="none" attribute
\* of the input is still present.
C10_AttributesRecolored ==
    (ret.done /\ ret.r.ok) =>
        \A name \in {"fill", "stroke"} :
            /\ CountOf(ret.r.val, name \o "=\"none\"")
               = AttrCount(call.text, name, TRUE)
            /\ CountOf(ret.r.val, name \o "=\"currentColor\"")
               = AttrCount(call.text, name, FALSE)

\* a declaration name: none of an inline style starts at index i of s:
\* the token none, with any whitespace around it, up to a semicolon, the
\* closing quote or the end of the text
StyleNoneAt(s, i, name) ==
    /\ MatchAt(s, i, name \o ":")
    /\ LET b == SkipSpace(s, i + Len(name) + 1)
           c == SkipSpace(s, b + 4)
       IN /\ MatchAt(s, b, "none")
          /\ (c > Len(s) \/ CharAt(s, c) \in {";", "\""})

StyleNoneCount(s, name) ==
    Cardinality({i \in 1..Len(s) : StyleNoneAt(s, i, name)})

\* the text has nothing the steps before the recoloring remove
OnlyPaint(s) ==
    /\ ~Contains(s, "<?xml")
    /\ ~Contains(s, "<!--")
    /\ ~Contains(s, "width=")
    /\ ~Contains(s, "height=")

\* C11 as stated: every fill: none / stroke: none declaration of an inline
\* style, with or without a trailing semicolon, is still declared none in
\* the output, and no text after a declaration's value is consumed: the
\* quotes of the input are all still there.
C11_StyleNoneKept ==
    (ret.done /\ ret.r.ok) =>
        /\ \A name \in {"fill", "stroke"} :
              StyleNoneCount(ret.r.val, name) = StyleNoneCount(call.text, name)
        /\ OnlyPaint(call.text)
              => CountOf(ret.r.val, "\"") = CountOf(call.text, "\"")

-----------------------------------------------------------------------------
(* Further claims about process_icon, checked under SpecIcon               *)

\* the call is the one of a vector reference that could be obtained: an
\* existing, readable local file with the extension svg, or a remote
\* reference whose response is detected as SVG
VectorCase ==
    /\ ~StartsWith(call.icon, "data:")
    /\ IF HasRemotePrefix(call.icon)
       THEN call.env.fetch_ok /\ call.env.body_ok
            /\ UrlIsSvg(call.icon, call.env.data)
       ELSE call.env.exists /\ call.env.read_ok
            /\ PathExtension(call.icon) = Some("svg")

\* C12: for a vector reference whose bytes are valid UTF-8 the result is
\* the sentinel __INLINE_SVG__ followed by the rewritten text, it is not a
\* base64 data URI, and it is the same for every resize target and for none.
C12_VectorInlineAnyTarget ==
    (ret.done /\ VectorCase /\ IsUtf8(call.env.data))
    => /\ ret.r.ok
       /\ ret.r.val = "__INLINE_SVG__" \o RewriteSvg(call.env.data.text)
       /\ ~StartsWith(ret.r.val, "data:")
       /\ \A t \in IconTargets :
             process_icon(call.icon, t, call.env).val = ret.r.val

C12_Witness ==
    /\ ret.done
    /\ call.icon = "https://h/b.gif?v=1"
    /\ call.env.fetch_ok /\ call.env.body_ok
    /\ call.env.data = Text(SvgSample)
    /\ call.target = Some(64)
    /\ StartsWith(ret.r.val, "__INLINE_SVG__<svg")

-----------------------------------------------------------------------------
(* Further claims about generate(), checked under Spec                     *)

\* the value of an icon slot in the profile p and the links l
SlotValue(p, l, slot) ==
    CASE slot.kind = "avatar" -> p.avatar[slot.key]
      [] slot.kind = "social" -> p.social[slot.key]
      [] slot.kind = "link" ->
            IF l[slot.key].icon.some THEN l[slot.key].icon.v ELSE ""

\* the step resolves the slot of a vector asset whose bytes are not valid
\* UTF-8: the recolorer ran and the slot holds no inline markup
BadSvgStep(slot) ==
    /\ pc = "icons"
    /\ Len(events') = Len(events) + 1
    /\ \E i \in 1..Len(events'[Len(events')].ops) :
          events'[Len(events')].ops[i] = "recolor"
    /\ ~StartsWith(SlotValue(profile', links', slot), "__INLINE_SVG__")

\* C13 as stated: when the bytes of an SVG asset are not valid UTF-8 the
\* asset is dropped: after the step its slot is empty, it holds neither
\* the original reference nor a substitute.
C13_BadSvgDropped ==
    [][\A slot \in {IconSlots[n] : n \in {idx} \cap 1..Len(IconSlots)} :
          BadSvgStep(slot) => SlotValue(profile', links', slot) = ""]_vars

-----------------------------------------------------------------------------
(* Direct calls of Typography::resolve                                     *)

\* a TypographyStyle table whose fields are absent or hold the values of
\* one origin: the role's table (tag "role") or the global default table
StylesOf(tag, colors) ==
    [size : {None, Some(tag \o "-size")}, font : {None, Some(tag \o "-font")},
     weight : {None, Some(tag \o "-weight")},
     style : {None, Some(tag \o "-style")},
     color : {None} \cup {Some(c) : c \in colors},
     color_dark : {None, Some(tag \o "-dark")}]

\* the legacy colors of a theme, as the caller can pass them
LegacyColors == {None, Some("#abc"), Some("")}

InitTypo ==
    /\ GenIdle
    /\ call \in [typography : {[BareTypography EXCEPT !.default = d] :
                                 d \in StylesOf("default", {"#000000", "#111"})},
                 element : StylesOf("role", {"#e00"}),
                 legacy_color : LegacyColors,
                 legacy_color_dark : LegacyColors]
    /\ ret = Pending

CallResolve ==
    /\ ~ret.done
    /\ ret' = Returned(resolve(call.typography, call.element,
                               call.legacy_color, call.legacy_color_dark))
    /\ UNCHANGED <<call, genVars>>

NextTypo == CallResolve

SpecTypo == InitTypo /\ [][NextTypo]_vars

\* C14: the resolved light color is the first present of the role's color,
\* the legacy light color, the global default color and "#000000".
C14_LightColorCascade ==
    ret.done =>
        ret.r.color =
            IF call.element.color.some THEN call.element.color.v
            ELSE IF call.legacy_color.some THEN call.legacy_color.v
            ELSE IF call.typography.default.color.some
            THEN call.typography.default.color.v
            ELSE "#000000"

C14_Witness ==
    /\ ret.done
    /\ ~call.element.color.some
    /\ call.legacy_color = Some("#abc")
    /\ call.typography.default.color = Some("#000000")
    /\ ret.r.color = "#abc"

\* C15: the resolved dark color is the first present of the role's
\* color_dark, the legacy dark color and the global default color_dark; it
\* is absent exactly when the three are absent.
C15_DarkColorCascade ==
    ret.done =>
        /\ ret.r.color_dark =
              IF call.element.color_dark.some THEN call.element.color_dark
              ELSE IF call.legacy_color_dark.some THEN call.legacy_color_dark
              ELSE call.typography.default.color_dark
        /\ ~ret.r.color_dark.some
              <=> /\ ~call.element.color_dark.some
                  /\ ~call.legacy_color_dark.some
                  /\ ~call.typography.default.color_dark.some

C15_Witness ==
    /\ ret.done
    /\ ~call.element.color_dark.some
    /\ ~call.legacy_color_dark.some
    /\ ~call.typography.default.color_dark.some
    /\ call.element.color.some
    /\ ret.r.color_dark = None

\* the hardcoded defaults of size, font, weight and style
BuiltIn ==
    [size |-> "16px", font |-> "system-ui, -apple-system, sans-serif",
     weight |-> "normal", style |-> "normal"]

\* C16: size, font, weight and style each resolve to the first present of
\* the role's value, the global default's value and the hardcoded default;
\* the legacy colors do not influence them; every field but color_dark is
\* populated.
C16_FieldCascade ==
    ret.done =>
        /\ \A f \in DOMAIN BuiltIn :
              /\ ret.r[f] =
                    IF call.element[f].some THEN call.element[f].v
                    ELSE IF call.typography.default[f].some
                    THEN call.typography.default[f].v
                    ELSE BuiltIn[f]
              /\ \A l \in LegacyColors, ld \in LegacyColors :
                    resolve(call.typography, call.element, l, ld)[f] = ret.r[f]
        /\ \A f \in DOMAIN BuiltIn \cup {"color"} : ret.r[f] \in STRING
        /\ DOMAIN ret.r = DOMAIN BuiltIn \cup {"color", "color_dark"}

C16_Witness ==
    /\ ret.done
    /\ ~call.element.size.some
    /\ call.typography.default.size.some
    /\ ~call.element.font.some
    /\ ~call.typography.default.font.some
    /\ call.legacy_color = Some("#abc")
    /\ ret.r.size = "default-size"
    /\ ret.r.font = "system-ui, -apple-system, sans-serif"

\* the QR generator was invoked in this run
QrInvoked == \E i \in 1..Len(events) : events[i].step = "qr"

\* the run is past the QR step
PastQr ==
    \/ pc \in {"favicon", "render_html", "create_dir", "write"}
    \/ DOMAIN ctx # {}

\* C17: the QR generator is invoked, and the key qr_code_data is in the
\* HTML context, if and only if page_url is present and not the empty
\* string: never for an absent or empty page_url, and always for another
\* one once the run has reached the QR step, resp. built the context.
C17_QrOptIn ==
    LET configured == cfg.page_url.some /\ cfg.page_url.v # ""
    IN /\ QrInvoked => configured
       /\ "qr_code_data" \in DOMAIN ctx => configured
       /\ (PastQr /\ configured) => QrInvoked
       /\ (DOMAIN ctx # {} /\ configured) => "qr_code_data" \in DOMAIN ctx

C17_Witness ==
    /\ pc = "done"
    /\ result = "Ok"
    /\ cfg.page_url = Some("")
    /\ ~QrInvoked
    /\ "qr_code_data" \notin DOMAIN ctx
    /\ "meta" \in DOMAIN ctx

-----------------------------------------------------------------------------
(* Direct calls of generate_qr_code                                        *)

RECURSIVE Padded(_, _)
\* the text s followed by "a" up to the length n
Padded(s, n) == IF Len(s) >= n THEN s ELSE Padded(s \o "a", n)

\* URLs of every length the symbols of versions 1 to 5 hold, and one that
\* no symbol holds
QrPayloads ==
    {SubSeq(Padded("https://example.com/", QrSmallCapacity[5]), 1, n) :
        n \in 1..QrSmallCapacity[5]} \cup {LongUrl}

InitQr ==
    /\ GenIdle
    /\ call \in QrPayloads
    /\ ret = Pending

CallGenerateQr ==
    /\ ~ret.done
    /\ ret' = Returned(generate_qr_code(call))
    /\ UNCHANGED <<call, genVars>>

NextQr == CallGenerateQr

SpecQr == InitQr /\ [][NextQr]_vars

\* C18 as stated: for every encodable payload, whatever its length,
\* generate_qr_code returns a data:image/png;base64, URI of an image of
\* exactly 200 x 200 pixels.
C18_QrExactly200 ==
    (ret.done /\ ret.r.ok)
    => ret.r.val = DataUri("image/png", Raster("png", 200, 200, TRUE))

\* the steps whose failure is a structural failure
Structural ==
    {"validate", "load_theme", "add_css", "render_css", "add_html",
     "render_html"}

\* C19: when validation fails, template.html or style.css cannot be read,
\* or a template fails to parse or render, generate() returns an error and
\* the output is not written; the output is written last, after every
\* earlier step has succeeded.
C19_StructuralFailuresFatal ==
    /\ (cfg.name = "" \/ cfg.links = <<>> \/ cfg.dark_mode = "night")
          => ~written
    /\ \A i \in 1..Len(events) :
          (events[i].step \in Structural /\ ~events[i].ok)
             => /\ i = Len(events)
                /\ pc = "done"
                /\ result = "Err"
                /\ ~written
    /\ written
          => /\ pc = "done"
             /\ result = "Ok"
             /\ events[Len(events)].step = "write"
             /\ \A s \in Structural \cup {"create_dir", "write"} :
                   \E i \in 1..Len(events) :
                      events[i].step = s /\ events[i].ok
             /\ \A i \in 1..Len(events) :
                   events[i].ok \/ events[i].step = "resolve"

C19_Witness ==
    /\ pc = "done"
    /\ result = "Err"
    /\ ~written
    /\ events[Len(events)].step = "render_html"
    /\ ~events[Len(events)].ok
    /\ \E i \in 1..Len(events) : events[i].step = "resolve" /\ ~events[i].ok

\* the place of a step in the order (a) assets, (b) typography, (c) QR,
\* (d) CSS render then HTML render, (e) write; 0 for the steps the order
\* does not mention and for the favicon step of a run without a favicon
StatedPhase(e) ==
    CASE e.step = "resolve" ->
            IF e.slot = "favicon" /\ ~cfg.favicon.some THEN 0 ELSE 1
      [] e.step = "typography" -> 2
      [] e.step = "qr" -> 3
      [] e.step = "render_css" -> 4
      [] e.step = "render_html" -> 5
      [] e.step = "write" -> 6
      [] OTHER -> 0

\* C20: the steps of a run occur in the order assets (favicon included),
\* typography, QR, CSS render, HTML render, write: no step of an earlier
\* phase follows a step of a later one.
C20_StatedOrder ==
    \A i, j \in 1..Len(events) :
       (i < j /\ StatedPhase(events[i]) > 0 /\ StatedPhase(events[j]) > 0)
          => StatedPhase(events[i]) <= StatedPhase(events[j])

-----------------------------------------------------------------------------
(* process_favicon called directly, checked under SpecFavicon              *)

InitFavicon ==
    /\ GenIdle
    /\ call \in [icon : IconRefs, target : IconTargets, env : IconEnvs]
    /\ ret = Pending

CallProcessFavicon ==
    /\ ~ret.done
    /\ ret' = Returned(process_favicon(Some(call.icon), call.target, call.env))
    /\ UNCHANGED <<call, genVars>>

NextFavicon == CallProcessFavicon

SpecFavicon == InitFavicon /\ [][NextFavicon]_vars

\* what process_icon yields for the reference, target and surroundings of
\* the call
AsIcon == process_icon(call.icon, call.target, call.env)

\* meta_with_favicon.favicon: the processed favicon, or the configured one
\* when process_favicon returns None
MetaFavicon(fav, processed) == IF processed.some THEN processed ELSE fav

\* C21: the favicon value placed in the rendering context equals what
\* process_icon yields for the same reference and target: both fail, or
\* both succeed and the context holds the value process_icon returns.
C21_FaviconAsIcon ==
    ret.done =>
       \E i \in {AsIcon} :
          /\ ret.r.ok = i.ok
          /\ i.ok => MetaFavicon(Some(call.icon), ret.r.val) = Some(i.val)

-----------------------------------------------------------------------------
(* process_icon called three times by one generator, checked under         *)
(* SpecAgain: two calls with the same arguments and one other call          *)

\* the other call: the same reference with another target, or a remote
\* image that is fetched and embedded
OtherCalls(a) ==
    {[icon |-> a.icon,
      target |-> IF a.target.some THEN None ELSE Some(64),
      env |-> a.env],
     [icon |-> "https://h/b.gif?v=1",
      target |-> Some(64),
      env |-> [fetch_ok |-> TRUE, body_ok |-> TRUE, exists |-> FALSE,
               read_ok |-> FALSE, data |-> Raster("gif", 100, 150, TRUE)]]}

\* the places of the other call among the three
CallOrders == {<<"a", "b", "a">>, <<"b", "a", "a">>}

\* the arguments of the n-th call
ArgAt(n) == IF call.order[n] = "a" THEN call.a ELSE call.b

InitAgain ==
    /\ GenIdle
    /\ \E a \in [icon : IconRefs, target : IconTargets, env : IconEnvs] :
          call \in [a : {a}, b : OtherCalls(a), order : CallOrders]
    /\ ret = <<>>

\* process_icon takes &self: it has the reference, the target, the file
\* system and the responses to read, and nothing of the generator to write
CallProcessIconAgain ==
    /\ Len(ret) < Len(call.order)
    /\ \E c \in {ArgAt(Len(ret) + 1)} :
          ret' = Append(ret, process_icon(c.icon, c.target, c.env))
    /\ UNCHANGED <<call, genVars>>

NextAgain == CallProcessIconAgain

SpecAgain == InitAgain /\ [][NextAgain]_vars

SameIgnoringCase(s, t) ==
    /\ Len(s) = Len(t)
    /\ \A i \in 1..Len(s) :
          \/ CharAt(s, i) = CharAt(t, i)
          \/ \E j \in 1..Len(UpperChars) :
                {CharAt(s, i), CharAt(t, i)}
                   = {CharAt(UpperChars, j), CharAt(LowerChars, j)}

\* s is one of the words, in any case
OneOf(s, words) == \E w \in words : SameIgnoringCase(s, w)

\* the conditions under which a configuration is valid
StatedValid(c) ==
    /\ c.name # ""
    /\ Len(c.links) >= 1
    /\ OneOf(c.dark_mode, {"auto", "light", "dark", "disable"})
    /\ \A i \in 1..Len(c.links) :
          /\ OneOf(c.links[i].link_type, {"block", "space"})
          /\ OneOf(c.links[i].link_type, {"block"})
                => (c.links[i].title.some /\ c.links[i].title.v # "")

\* C23: validation is the first step of generate() and succeeds exactly
\* when the name is non-empty, there is a link, the dark mode is one of
\* auto, light, dark, disable in any case, every link type is block or
\* space in any case and every block link has a non-empty title (a space
\* link needs no height); when it fails, no asset is resolved.
C23_ValidateIff ==
    pc # "validate" =>
       /\ events # <<>>
       /\ events[1].step = "validate"
       /\ events[1].ok = StatedValid(cfg)
       /\ \A i \in 2..Len(events) : events[i].step # "validate"
       /\ ~StatedValid(cfg)
             => /\ Len(events) = 1
                /\ pc = "done"
                /\ result = "Err"
                /\ profile = None
                /\ ~written

C23_Witness ==
    /\ pc = "done"
    /\ result = "Err"
    /\ Len(events) = 1
    /\ cfg.avatar.light # ""
    /\ Len(cfg.links) = 3
    /\ cfg.name # ""
    /\ cfg.dark_mode = "disable"
    /\ ~cfg.links[2].title.some

\* the maximum dimension configured for a role
StatedSize(kind) ==
    CASE kind = "avatar" -> cfg.image.avatar_size
      [] kind = "social" -> cfg.image.social_icon_size
      [] kind = "link" -> cfg.image.link_icon_size
      [] kind = "favicon" -> cfg.image.favicon_size

\* the step resolves the slot as process_icon does with the size of its
\* role, for some answer of the environment
IconStepSized(slot) ==
    \E ref \in {SlotValue(profile, links, slot)} :
    \E env \in AssetEnvs(ref) :
    \E r \in {process_icon(ref, Some(StatedSize(slot.kind)), env)} :
       /\ events' = Append(events, Event("resolve", slot.kind, r.ok, r.ops))
       /\ SlotValue(profile', links', slot) = IF r.ok THEN r.val ELSE ref

\* the step resolves the favicon as process_favicon does with
\* image.favicon_size, for some answer of the environment
FaviconStepSized ==
    \E env \in AssetEnvs(cfg.favicon.v) :
    \E r \in {process_favicon(cfg.favicon, Some(StatedSize("favicon")), env)} :
       IF r.ok THEN favicon' = r.val /\ pc' = "render_html"
       ELSE result' = "Err" /\ pc' = "done"

\* C24: both avatars are resolved with image.avatar_size, every social icon
\* with image.social_icon_size, every link icon with image.link_icon_size
\* and the favicon with image.favicon_size; a configuration without image
\* settings has 512, 128, 128 and 64.
C24_RoleSizes ==
    /\ [](cfg.image # SizedImage
            => cfg.image = [avatar_size |-> 512, social_icon_size |-> 128,
                            link_icon_size |-> 128, favicon_size |-> 64])
    /\ [][/\ (pc = "icons" /\ events' # events)
                => \A slot \in {IconSlots[n] :
                                  n \in {idx} \cap 1..Len(IconSlots)} :
                      IconStepSized(slot)
          /\ (pc = "favicon" /\ cfg.favicon.some /\ cfg.favicon.v # "")
                => FaviconStepSized]_vars

C24_Witness ==
    /\ pc = "render_html"
    /\ cfg = SizedConfig
    /\ favicon.some
    /\ \A v \in {profile.avatar.dark, profile.social[1], links[1].icon.v,
                 favicon.v} : StartsWith(v, "data:image/png;base64,")
    /\ Cardinality({profile.avatar.dark, profile.social[1],
                    links[1].icon.v, favicon.v}) = 4

\* the value the configuration gives a slot
ConfiguredValue(slot) ==
    SlotValue([avatar |-> cfg.avatar, social |-> cfg.social], cfg.links, slot)

\* v is a value the slot can end with, whatever happens to the other
\* slots: the configured one, or what process_icon returns for it
PossibleValue(slot, v) ==
    \/ v = ConfiguredValue(slot)
    \/ \E env \in AssetEnvs(ConfiguredValue(slot)) :
       \E r \in {process_icon(ConfiguredValue(slot),
                              Some(StatedSize(slot.kind)), env)} :
          r.ok /\ r.val = v

\* the slots generate() has passed
PassedSlots ==
    {n \in 1..Len(IconSlots) : pc = "icons" => n < idx}

\* the resolutions of avatars, social icons and link icons so far
IconResolutions ==
    {i \in 1..Len(events) :
        events[i].step = "resolve" /\ events[i].slot # "favicon"}

\* what holds of the slots and links in every state of a run
SlotsKept ==
    profile # None =>
       /\ Len(links) = Len(cfg.links)
       /\ Len(profile.social) = Len(cfg.social)
       /\ \A i \in 1..Len(links) :
             /\ [links[i] EXCEPT !.icon = cfg.links[i].icon] = cfg.links[i]
             /\ cfg.links[i].icon \in {None, Some("")}
                   => links[i].icon = cfg.links[i].icon
       /\ \A n \in 1..Len(IconSlots) :
             /\ ConfiguredValue(IconSlots[n]) = ""
                   => SlotValue(profile, links, IconSlots[n]) = ""
             /\ n \notin PassedSlots
                   => SlotValue(profile, links, IconSlots[n])
                         = ConfiguredValue(IconSlots[n])
             /\ (pc = "icons" /\ n = idx - 1)
                   => PossibleValue(IconSlots[n],
                                    SlotValue(profile, links, IconSlots[n]))
       /\ Cardinality(IconResolutions)
             = Cardinality({n \in PassedSlots :
                              ConfiguredValue(IconSlots[n]) # ""})
       /\ (pc \in {"create_dir", "write"} \/ written)
             => ctx.links = links /\ ctx.profile = profile

\* a step changes no slot but the one it resolves
OtherSlotsKept ==
    profile # None =>
       \A n \in 1..Len(IconSlots) :
          (pc # "icons" \/ n # idx)
             => SlotValue(profile', links', IconSlots[n])
                   = SlotValue(profile, links, IconSlots[n])

\* C25: the links given to the renderer are the configured links, in
\* number and order, with every field but the icon unchanged; an empty
\* avatar or social icon and an absent or empty link icon keep their value
\* and trigger no resolution; a slot gets its value, the configured one or
\* what process_icon returns for it, in its own step, and no step changes
\* another slot, whether a resolution failed or not.
C25_OnlyAssetFields == []SlotsKept /\ [][OtherSlotsKept]_vars

C25_Witness ==
    /\ written
    /\ cfg = OrderedConfig
    /\ profile.avatar.light = "a.png"
    /\ \E i \in IconResolutions : ~events[i].ok
    /\ StartsWith(links[1].icon.v, "data:")
    /\ links[2] = BlockLink(None)
    /\ StartsWith(links[3].icon.v, "__INLINE_SVG__")

\* the call made the operation o
HasOp(o) == \E i \in 1..Len(ret.r.ops) : ret.r.ops[i] = o

\* C26: a reference is classified by its data: prefix first, then by a
\* remote prefix, then by the existence of a file, and is a literal
\* otherwise: a data: reference is returned with no file or network
\* access, a remote one is fetched and never looked up on disk, any other
\* one is looked up on disk, read exactly when it exists, returned as it is
\* when it does not, and never fetched.
C26_ClassifiedInOrder ==
    ret.done =>
       /\ StartsWith(call.icon, "data:") => ret.r = Ok(call.icon, <<>>)
       /\ (~StartsWith(call.icon, "data:") /\ HasRemotePrefix(call.icon))
             => /\ ret.r.ops # <<>>
                /\ ret.r.ops[1] = "fetch"
                /\ ~HasOp("exists")
                /\ ~HasOp("read")
       /\ (~StartsWith(call.icon, "data:") /\ ~HasRemotePrefix(call.icon))
             => /\ ret.r.ops # <<>>
                /\ ret.r.ops[1] = "exists"
                /\ ~HasOp("fetch")
                /\ ~HasOp("body")
                /\ HasOp("read") <=> call.env.exists
                /\ ~call.env.exists => ret.r = Ok(call.icon, <<"exists">>)

C26_Witness ==
    /\ ret.done
    /\ call.icon = "https://h/b.gif?v=1"
    /\ call.env.exists
    /\ call.env.read_ok
    /\ call.env.fetch_ok
    /\ call.env.body_ok
    /\ ret.r.ops[1] = "fetch"
    /\ StartsWith(ret.r.val, "data:image/")

\* the typography roles generate() resolves
Roles == {"header", "bio", "link_title", "link_description"}

\* C27: every role is resolved with the theme's legacy colors present: its
\* light color is the role's own color or else the legacy light color,
\* never the global default color or "#000000", and its dark color is
\* always present, the role's own or else the legacy dark color.
C27_LegacyAlwaysSupplied ==
    typo.some =>
       \A role \in Roles :
          /\ typo.v[role].color
                = IF cfg.typography[role].color.some
                  THEN cfg.typography[role].color.v
                  ELSE cfg.light[role \o "_color"]
          /\ typo.v[role].color_dark.some
          /\ typo.v[role].color_dark.v
                = IF cfg.typography[role].color_dark.some
                  THEN cfg.typography[role].color_dark.v
                  ELSE cfg.dark[role \o "_color"]

C27_Witness ==
    /\ pc = "add_html"
    /\ cfg.typography.default.color = Some("#d0d0d0")
    /\ cfg.typography.default.color_dark = Some("#dddddd")
    /\ cfg.typography.bio.color = Some("#b10b10")
    /\ ~cfg.typography.bio.color_dark.some
    /\ typo.v.header.color = "#111111"
    /\ typo.v.header.color_dark = Some("#aaaaaa")
    /\ typo.v.link_title.color = ""
    /\ typo.v.link_description.color_dark = Some("")
    /\ typo.v.bio.color = "#b10b10"
    /\ typo.v.bio.color_dark = Some("#bbbbbb")

====
